---- MODULE Spec2Model ----
(***************************************************************************)
(* A model of get_tweets.py: the Twitterator class, which turns            *)
(* ParsedTweet objects into fixtures (parse_tweet, parse_hash,             *)
(* parse_competitors, serialize_competitors) or saves them to the          *)
(* database (tweet_to_db, hashtag_to_db, __save_comps__,                   *)
(* competitors_to_db).                                                     *)
(*                                                                         *)
(* The Python object is the record `self`; every method is an operator     *)
(* from a world record w = [self, db, emitted, log, call, exc] to the      *)
(* world after the call.  w.exc names the exception that is propagating    *)
(* ("none" when the call returned).                                        *)
(*                                                                         *)
(* Further down: ParsedTweet.__init__ and __get_meta_key__ over Python     *)
(* values written <<type, payload>>; the Twitterizer (parse_tweet,         *)
(* get_tweets, the generator of tweet_iterator) over a sample of raw       *)
(* tweets; and the readers of a file of tweets (json_to_parsed,            *)
(* Twitterator.tweet_generator).  A generator advances by one next() of    *)
(* its consumer per step.  Last come ParsedTweet.get_coordinates over the  *)
(* coordinates entry of the metadata, the munging of the text done by      *)
(* ParsedTweet.__init__, and Twitterator.add_new_competitor.               *)
(***************************************************************************)
EXTENDS Integers, Sequences, FiniteSets, TLC

VARIABLES
    self,      \* the Twitterator object's attributes
    db,        \* the rows of the three database tables
    emitted,   \* history: the value handed to each self.fixtures.append call
    log,       \* history: every create the persistence backend was asked for
    lastCall,  \* the last method called from outside, its arguments and outcome
    ncalls,    \* number of methods called from outside so far
    budget,    \* number of outside calls this run may make
    session,   \* one Twitterizer run: its feed, its arguments and its progress
    pure       \* the argument and the result of a function called on its own

vars == <<self, db, emitted, log, lastCall, ncalls, budget, session, pure>>

(*************************** bounds of the model ***************************)
\* number of outside calls on one Twitterator
MaxCalls == 4
\* length of the occurrence list handed to serialize_competitors
MaxOcc == 4
\* number of outside calls in database mode
MaxDbCalls == 2
\* the retry ceiling a caller configures
RetryCeiling == 1
\* identifiers 1..MaxPre may be taken in a table before the run starts
MaxPre == 2

Tags == {"w", "x", "y", "z"}

(***************************** ParsedTweet *********************************)
\* A ParsedTweet as the Twitterator reads it: text, get_munged_text(),
\* get_meta('id'), init_uid(), get_meta('time_zone'), get_coordinates()
\* (<<>> for None, else <<longitude, latitude>>) and get_hashes().
\* The texts used here hold no @mention, so the munged text is the text.
ParsedTweet(text, coordinates, hashtags) ==
    [text |-> text, munged_text |-> text, meta_id |-> text, uid |-> text,
     time_zone |-> "tz", coordinates |-> coordinates, hashtags |-> hashtags]

PostA == ParsedTweet("A", <<>>, <<"x", "y">>)
PostB == ParsedTweet("B", <<12, 45>>, <<"y", "z">>)
PostC == ParsedTweet("C", <<>>, <<>>)
Posts == {PostA, PostB, PostC}

get_hashes(tweet) == tweet.hashtags

get_coordinates(tweet) == tweet.coordinates

(************************ Twitterator.__init__ *****************************)
\* The three fixture templates.  Each is ONE dictionary: parse_tweet,
\* parse_hash and parse_competitors write into it and append a reference
\* to it to self.fixtures.  The placeholder 0 of tag1/tag2 is written "0"
\* so that the field holds strings throughout.
tweet_fixture0 ==
    [model |-> "hash_to_hash.tweet", pk |-> 0,
     fields |-> [text |-> "", uid |-> "", time_zone |-> "",
                 lat |-> <<>>, lon |-> <<>>]]

hash_fixture0 ==
    [model |-> "hash_to_hash.hashtag", pk |-> 0,
     fields |-> [text |-> "", tweet |-> 0]]

competitor_fixture0 ==
    [model |-> "hash_to_hash.competitors", pk |-> 0,
     fields |-> [tag1 |-> "0", tag2 |-> "0", votes |-> 0]]

\* self.competitors = Competitors.objects.all().  The Competitors model and
\* its manager are hash_to_hash.models, which is not part of the source at
\* hand; the collection is modelled as the occurrence list the builder
\* appends to and pops from, empty on a new builder.  (filter() on it reads
\* the Competitors table: competitors_filter below.)  A stock Django
\* QuerySet would offer neither append() nor pop().
Competitors_objects_all == <<>>

\* The attributes after __init__.
Twitterator ==
    [fixtures |-> <<>>,
     competitors |-> Competitors_objects_all,
     tweet_i |-> 1, hash_i |-> 1, competitors_i |-> 1,
     tweet_fixture |-> tweet_fixture0,
     hash_fixture |-> hash_fixture0,
     competitor_fixture |-> competitor_fixture0]

\* What json.dump(self.fixtures) sees: every entry of the list is a
\* reference to one of the three template dictionaries.
Fixtures(s) == [i \in 1..Len(s.fixtures) |-> s[s.fixtures[i]]]

(************************** fixture mode ***********************************)
\* self.fixtures.append(d) where d is the template named ref.
fixtures_append(w, ref) ==
    [w EXCEPT !.self.fixtures = Append(@, ref),
              !.emitted = Append(@, [ref |-> ref, value |-> w.self[ref],
                                     call |-> w.call])]

\* variant: a tag is put on self.competitors only when it is not there yet
parse_hash_unique(w, tag) ==
    LET w1 == [w EXCEPT !.self.hash_fixture.pk = w.self.hash_i,
                        !.self.hash_fixture.fields.text = tag,
                        !.self.hash_fixture.fields.tweet = w.self.tweet_i]
        w2 == fixtures_append(w1, "hash_fixture")
    IN  [w2 EXCEPT !.self.competitors =
                       IF \E n \in 1..Len(@) : @[n] = tag THEN @ ELSE Append(@, tag),
                   !.self.hash_i = @ + 1]

parse_hash(w, tag) ==
    LET w1 == [w EXCEPT !.self.hash_fixture.pk = w.self.hash_i,
                        !.self.hash_fixture.fields.text = tag,
                        !.self.hash_fixture.fields.tweet = w.self.tweet_i]
        w2 == fixtures_append(w1, "hash_fixture")
    IN  [w2 EXCEPT !.self.competitors = Append(@, tag),
                   !.self.hash_i = @ + 1]

\* for tag in tweet.get_hashes(): self.parse_hash(tag)
RECURSIVE parse_hashes(_, _)
parse_hashes(w, tags) ==
    IF tags = <<>> \/ w.exc # "none" THEN w
    ELSE parse_hashes(parse_hash(w, Head(tags)), Tail(tags))

\* variant: `self.tweet_i += 1` indented into the loop over the tags
parse_tweet_per_tag(w, tweet) ==
    LET w1 == [w EXCEPT !.self.tweet_fixture.pk = w.self.tweet_i,
                        !.self.tweet_fixture.fields.text = tweet.munged_text,
                        !.self.tweet_fixture.fields.uid = tweet.meta_id,
                        !.self.tweet_fixture.fields.time_zone = tweet.time_zone]
        w3 == fixtures_append(w1, "tweet_fixture")
        w4 == parse_hashes(w3, get_hashes(tweet))
    IN  [w4 EXCEPT !.self.tweet_i = @ + Len(get_hashes(tweet))]

parse_tweet(w, tweet) ==
    LET c  == get_coordinates(tweet)
        w1 == [w EXCEPT !.self.tweet_fixture.pk = w.self.tweet_i,
                        !.self.tweet_fixture.fields.text = tweet.munged_text,
                        !.self.tweet_fixture.fields.uid = tweet.meta_id,
                        !.self.tweet_fixture.fields.time_zone = tweet.time_zone]
        \* get_coordinates() is None: TypeError, pass
        w2 == IF c = <<>> THEN w1
              ELSE [w1 EXCEPT !.self.tweet_fixture.fields.lat = <<c[2]>>,
                              !.self.tweet_fixture.fields.lon = <<c[1]>>]
        w3 == fixtures_append(w2, "tweet_fixture")
        w4 == parse_hashes(w3, get_hashes(tweet))
    IN  IF w4.exc # "none" THEN w4
        ELSE [w4 EXCEPT !.self.tweet_i = @ + 1]

\* variant: the hashtag counter is advanced in place of the competitors one
parse_competitors_hash_i(w, competitor1, competitor2) ==
    LET w1 == [w EXCEPT !.self.competitor_fixture.pk = w.self.competitors_i,
                        !.self.competitor_fixture.fields.tag1 = competitor1,
                        !.self.competitor_fixture.fields.tag2 = competitor2]
        w2 == fixtures_append(w1, "competitor_fixture")
    IN  [w2 EXCEPT !.self.hash_i = @ + 1]

\* variant: tag2 is filled from competitor1
parse_competitors_same(w, competitor1, competitor2) ==
    LET w1 == [w EXCEPT !.self.competitor_fixture.pk = w.self.competitors_i,
                        !.self.competitor_fixture.fields.tag1 = competitor1,
                        !.self.competitor_fixture.fields.tag2 = competitor1]
        w2 == fixtures_append(w1, "competitor_fixture")
    IN  [w2 EXCEPT !.self.competitors_i = @ + 1]

parse_competitors(w, competitor1, competitor2) ==
    LET w1 == [w EXCEPT !.self.competitor_fixture.pk = w.self.competitors_i,
                        !.self.competitor_fixture.fields.tag1 = competitor1,
                        !.self.competitor_fixture.fields.tag2 = competitor2]
        w2 == fixtures_append(w1, "competitor_fixture")
    IN  [w2 EXCEPT !.self.competitors_i = @ + 1]

\* variant: the inner loop without the `competitor1 != competitor` test
RECURSIVE for_competitor_all(_, _, _)
for_competitor_all(w, competitor1, rest) ==
    IF rest = <<>> THEN w
    ELSE for_competitor_all(parse_competitors(w, competitor1, Head(rest)),
                            competitor1, Tail(rest))

\* for competitor in self.competitors: if competitor1 != competitor: ...
RECURSIVE for_competitor(_, _, _)
for_competitor(w, competitor1, rest) ==
    IF rest = <<>> THEN w
    ELSE for_competitor(
             IF competitor1 # Head(rest)
             THEN parse_competitors(w, competitor1, Head(rest))
             ELSE w,
             competitor1, Tail(rest))

\* variant: pop(0), the first element leaves the list
pop_first(items) == [last |-> Head(items), rest |-> Tail(items)]

\* self.competitors.pop(): the last element leaves the list.
pop(items) == [last |-> items[Len(items)], rest |-> SubSeq(items, 1, Len(items) - 1)]

\* variant: `if self.competitors:` in place of the while loop
serialize_competitors_once(w) ==
    IF w.self.competitors = <<>> THEN w
    ELSE LET p  == pop(w.self.competitors)
             w1 == [w EXCEPT !.self.competitors = p.rest]
         IN  for_competitor(w1, p.last, p.rest)

\* while self.competitors: pop one, pair it with every one that is left
RECURSIVE serialize_competitors(_)
serialize_competitors(w) ==
    IF w.self.competitors = <<>> THEN w
    ELSE LET p  == pop(w.self.competitors)
             w1 == [w EXCEPT !.self.competitors = p.rest]
         IN  serialize_competitors(for_competitor(w1, p.last, p.rest))

(************************** database mode **********************************)
\* Rows that were in the tables before this Twitterator was built.
OldTweet(i) ==
    [id |-> i, text |-> "old", munged_text |-> "old", uid |-> "old",
     time_zone |-> "tz", lat |-> <<>>, lon |-> <<>>]

\* The old hashtag i belongs to the tweet with the same id.
OldHashtag(i) == [id |-> i, text |-> "old", tweet |-> {i}]

OldCompetitors(i) == [id |-> i, tag1 |-> 0, tag2 |-> 0, yes |-> 0, no |-> 0]

Database(T, H, C) ==
    [Tweet |-> {OldTweet(i) : i \in T},
     Hashtag |-> {OldHashtag(i) : i \in H},
     Competitors |-> {OldCompetitors(i) : i \in C}]

\* Model.save() of a new row: the backend's "create record of type T with
\* identifier id", which fails with a uniqueness violation when the
\* identifier is taken in that table.  Every request is put on the log.
save(w, table, row) ==
    LET taken == \E r \in w.db[table] : r.id = row.id
        entry == [table |-> table, id |-> row.id, row |-> [row EXCEPT !.id = 0],
                  ok |-> ~taken, call |-> w.call]
    IN  IF taken
        THEN [w EXCEPT !.log = Append(@, entry), !.exc = "IntegrityError"]
        ELSE [w EXCEPT !.log = Append(@, entry), !.db[table] = @ \cup {row}]

\* self.hashtags.get(pk=i): <<row>> or <<>> for Hashtag.DoesNotExist
hashtags_get(w, i) ==
    IF \E r \in w.db.Hashtag : r.id = i
    THEN <<CHOOSE r \in w.db.Hashtag : r.id = i>>
    ELSE <<>>

RECURSIVE hashtag_to_db(_, _, _)
hashtag_to_db(w, hashtag, tweet) ==
    LET h  == [id |-> w.self.hash_i, text |-> hashtag, tweet |-> {}]
        w1 == save(w, "Hashtag", h)
    IN  IF w1.exc = "IntegrityError"
        THEN hashtag_to_db([w1 EXCEPT !.exc = "none", !.self.hash_i = @ + 1],
                           hashtag, tweet)
        ELSE \* h.tweet.add(tweet), then the else branch
             [w1 EXCEPT !.db.Hashtag = (@ \ {h}) \cup {[h EXCEPT !.tweet = {tweet.id}]},
                        !.self.hash_i = @ + 1]

\* for hashtag in tweet.get_hashes(): self.hashtag_to_db(hashtag, t)
RECURSIVE hashtags_to_db(_, _, _)
hashtags_to_db(w, tags, t) ==
    IF tags = <<>> \/ w.exc # "none" THEN w
    ELSE hashtags_to_db(hashtag_to_db(w, Head(tags), t), Tail(tags), t)

\* variant: without the `else: self.tweet_i += 1` after a successful save
RECURSIVE tweet_to_db_no_else(_, _)
tweet_to_db_no_else(w, tweet) ==
    LET c  == get_coordinates(tweet)
        t  == [id |-> w.self.tweet_i, text |-> tweet.text,
               munged_text |-> tweet.munged_text, uid |-> tweet.uid,
               time_zone |-> tweet.time_zone,
               lat |-> IF c = <<>> THEN <<>> ELSE <<c[2]>>,
               lon |-> IF c = <<>> THEN <<>> ELSE <<c[1]>>]
        w1 == save(w, "Tweet", t)
    IN  IF w1.exc = "IntegrityError"
        THEN tweet_to_db_no_else([w1 EXCEPT !.exc = "none", !.self.tweet_i = @ + 1],
                                 tweet)
        ELSE hashtags_to_db(w1, get_hashes(tweet), t)

RECURSIVE tweet_to_db(_, _)
tweet_to_db(w, tweet) ==
    LET c  == get_coordinates(tweet)
        t  == [id |-> w.self.tweet_i, text |-> tweet.text,
               munged_text |-> tweet.munged_text, uid |-> tweet.uid,
               time_zone |-> tweet.time_zone,
               lat |-> IF c = <<>> THEN <<>> ELSE <<c[2]>>,
               lon |-> IF c = <<>> THEN <<>> ELSE <<c[1]>>]
        w1 == save(w, "Tweet", t)
        w2 == hashtags_to_db(w1, get_hashes(tweet), t)
    IN  IF w1.exc = "IntegrityError"
        THEN tweet_to_db([w1 EXCEPT !.exc = "none", !.self.tweet_i = @ + 1], tweet)
        ELSE IF w2.exc # "none" THEN w2
        ELSE [w2 EXCEPT !.self.tweet_i = @ + 1]

\* self.competitors.filter(tag1__id=tag1.pk).filter(tag2__id=tag2.pk)
competitors_filter(w, tag1, tag2) ==
    {r \in w.db.Competitors : r.tag1 = tag1.id /\ r.tag2 = tag2.id}

\* __save_comps__ ; its except branch calls self.save_comps, an attribute
\* the class does not have.
save_comps__(w, tag1, tag2) ==
    LET comps == [id |-> w.self.competitors_i, tag1 |-> tag1.id, tag2 |-> tag2.id,
                  yes |-> 0, no |-> 0]
        w1 == save(w, "Competitors", comps)
    IN  IF competitors_filter(w, tag1, tag2) # {} THEN w
        ELSE IF w1.exc = "IntegrityError"
        THEN [w1 EXCEPT !.self.competitors_i = @ + 1, !.exc = "AttributeError"]
        ELSE [w1 EXCEPT !.self.competitors_i = @ + 1]

\* the inner `while True` of competitors_to_db
RECURSIVE competitors_to_db_j(_, _, _)
competitors_to_db_j(w, tag1, j) ==
    LET tag2 == hashtags_get(w, j)
        w1   == save_comps__(w, tag1, tag2[1])
    IN  IF tag2 = <<>> THEN w
        ELSE IF w1.exc # "none" THEN w1
        ELSE competitors_to_db_j(w1, tag1, j + 1)

RECURSIVE competitors_to_db(_, _)
competitors_to_db(w, start) ==
    LET tag1 == hashtags_get(w, start)
        w1   == competitors_to_db_j(w, tag1[1], start + 1)
    IN  IF tag1 = <<>> THEN w
        ELSE IF w1.exc # "none" THEN w1
        ELSE competitors_to_db(w1, start + 1)

(***************************** the state machine ***************************)
NoCall ==
    [op |-> "__init__", tweet |-> PostC, occ |-> <<>>, base |-> 0, logbase |-> 0,
     tweet_i |-> 1, hash_i |-> 1, competitors_i |-> 1, exc |-> "none"]

\* The world a method called from outside starts in.
World == [self |-> self, db |-> db, emitted |-> emitted, log |-> log,
          call |-> ncalls + 1, exc |-> "none"]

\* The call op(tweet) took the world to w.
Returns(op, tweet, w) ==
    /\ self' = w.self
    /\ db' = w.db
    /\ emitted' = w.emitted
    /\ log' = w.log
    /\ ncalls' = ncalls + 1
    /\ budget' = budget
    /\ UNCHANGED <<session, pure>>
    /\ lastCall' = [op |-> op, tweet |-> tweet, occ |-> self.competitors,
                    base |-> Len(emitted), logbase |-> Len(log),
                    tweet_i |-> self.tweet_i, hash_i |-> self.hash_i,
                    competitors_i |-> self.competitors_i, exc |-> w.exc]

Min(a, b) == IF a < b THEN a ELSE b

\* No Twitterizer was run, no function was called on its own.
NoSession == [method |-> "none"]

NoArgument == [function |-> "none"]

Subsets(n) == SUBSET (1..n)

RECURSIVE SeqsUpTo(_, _)
SeqsUpTo(S, n) ==
    IF n = 0 THEN {<<>>}
    ELSE LET shorter == SeqsUpTo(S, n - 1)
         IN  shorter \cup {Append(q, e) : q \in {r \in shorter : Len(r) = n - 1}, e \in S}

InitWith(database, calls) ==
    /\ budget = calls
    /\ self = Twitterator
    /\ db = database
    /\ emitted = <<>>
    /\ log = <<>>
    /\ lastCall = NoCall
    /\ ncalls = 0

ParseTweet ==
    /\ ncalls < budget
    /\ \E tweet \in Posts : Returns("parse_tweet", tweet, parse_tweet(World, tweet))

SerializeCompetitors ==
    /\ ncalls < budget
    /\ Returns("serialize_competitors", PostC, serialize_competitors(World))

TweetToDb ==
    /\ ncalls < budget
    /\ \E tweet \in Posts : Returns("tweet_to_db", tweet, tweet_to_db(World, tweet))

CompetitorsToDb ==
    /\ ncalls < budget
    /\ Returns("competitors_to_db", PostC, competitors_to_db(World, 1))

\* Any ParsedTweet whose hashtag list has at most MaxOcc entries.
ParseAnyTweet ==
    /\ ncalls = 0
    /\ \E tags \in SeqsUpTo(Tags, MaxOcc) :
           LET tweet == ParsedTweet("P", <<>>, tags)
           IN  Returns("parse_tweet", tweet, parse_tweet(World, tweet))

\* Fixture mode on a freshly built Twitterator.
Init ==
    /\ InitWith(Database({}, {}, {}), MaxCalls)
    /\ session = NoSession
    /\ pure = NoArgument

Next == ParseTweet \/ SerializeCompetitors

Spec == Init /\ [][Next]_vars

\* Fixture mode, one tweet with an arbitrary hashtag list: every occurrence
\* list of at most MaxOcc tags is handed to serialize_competitors.
NextPairs == ParseAnyTweet \/ SerializeCompetitors

SpecPairs == Init /\ [][NextPairs]_vars

\* Database mode (with parse_tweet) on a freshly built Twitterator, any identifiers of
\* 1..MaxPre being taken in each table.
InitDb ==
    \E T \in Subsets(MaxPre), H \in Subsets(MaxPre), C \in Subsets(MaxPre) :
        /\ InitWith(Database(T, H, C), MaxDbCalls)
        /\ session = NoSession
        /\ pure = NoArgument

\* parse_tweet shares the three counters with the database methods.
NextDb == TweetToDb \/ CompetitorsToDb \/ ParseTweet

SpecDb == InitDb /\ [][NextDb]_vars

(***************************** Python values ******************************)
\* A Python value is a pair <<type, payload>>: a string holds its characters,
\* a number itself, a list its items, a dictionary the function from its keys
\* to their values.
Str(s) == <<"str", s>>

Num(n) == <<"num", n>>

List(items) == <<"list", items>>

Dict(d) == <<"dict", d>>

isinstance_dict(value) == value[1] = "dict"

\* {key: value}
Item(key, value) == [k \in {key} |-> value]

\* dict.update: the keys of other replace those of d
update(d, other) ==
    [k \in DOMAIN d \cup DOMAIN other |-> IF k \in DOMAIN other THEN other[k] ELSE d[k]]

\* d without the keys in ks
without_keys(d, ks) == [k \in DOMAIN d \ ks |-> d[k]]

\* bounds of the nested mappings handed to __get_meta_key__ on its own:
\* number of keys of one mapping, all levels together
MaxKeys == 4

Keys == <<"a", "b", "c">>

Range(q) == {q[i] : i \in 1..Len(q)}

\* The orders in which a dictionary may hand out its keys.
RECURSIVE Orders(_)
Orders(S) ==
    IF S = {} THEN {<<>>}
    ELSE UNION {{<<k>> \o rest : rest \in Orders(S \ {k})} : k \in S}

\* d.keys() when dictionaries iterate in the given order
keys(d, order) == SelectSeq(order, LAMBDA k : k \in DOMAIN d)

(********************** ParsedTweet.__get_meta_key__ ***********************)
\* A dictionary iterates in an arbitrary order; `order` is the one it takes.
RECURSIVE get_meta_key_for(_, _, _, _)
\* Mutant of get_meta_key_for: a nested dictionary is flattened in place of
\* its own key.
get_meta_key_for_leaves(metadata, ks, d, order) ==
    IF ks = <<>> THEN d
    ELSE LET k == Head(ks)
             d1 == IF isinstance_dict(metadata[k])
                   THEN update(d, get_meta_key_for(metadata[k][2], keys(metadata[k][2], order),
                                                   <<>>, order))
                   ELSE update(d, Item(k, metadata[k]))
         IN  get_meta_key_for(metadata, Tail(ks), d1, order)

\* The loop `for k in metadata.keys()` over the keys ks still to visit.
get_meta_key_for(metadata, ks, d, order) ==
    IF ks = <<>> THEN d
    ELSE LET k == Head(ks)
             d1 == update(d, Item(k, metadata[k]))
             d2 == IF isinstance_dict(metadata[k])
                   THEN update(d1, get_meta_key_for(metadata[k][2], keys(metadata[k][2], order),
                                                    <<>>, order))
                   ELSE d1
         IN  get_meta_key_for(metadata, Tail(ks), d2, order)

get_meta_key(metadata, order) == get_meta_key_for(metadata, keys(metadata, order), <<>>, order)

\* The nested mappings over the keys in ks with at most n keys, all levels
\* together; a leaf is a number.
RECURSIVE Mappings(_, _)
Mappings(ks, n) ==
    IF ks = <<>> \/ n = 0 THEN {<<>>}
    ELSE LET k == Head(ks)
         IN  Mappings(Tail(ks), n)
             \cup {update(m, Item(k, Num(1))) : m \in Mappings(Tail(ks), n - 1)}
             \cup UNION {{update(m, Item(k, Dict(child))) :
                              m \in Mappings(Tail(ks), n - 1 - j), child \in Mappings(Keys, j)} :
                         j \in 0..(n - 1)}

\* The keys that occur at any depth of a nested mapping.
RECURSIVE KeysAtAnyDepth(_)
KeysAtAnyDepth(metadata) ==
    DOMAIN metadata
    \cup UNION {IF isinstance_dict(metadata[k]) THEN KeysAtAnyDepth(metadata[k][2]) ELSE {} :
                k \in DOMAIN metadata}

\* __get_meta_key__ called on its own, on any nested mapping of at most
\* MaxKeys keys, its dictionaries iterating in any order.
InitFlatten ==
    /\ InitWith(Database({}, {}, {}), 0)
    /\ session = NoSession
    /\ \E metadata \in Mappings(Keys, MaxKeys), order \in Orders(Range(Keys)) :
           pure = [function |-> "__get_meta_key__", metadata |-> metadata, order |-> order,
                   returned |-> FALSE, result |-> <<>>]

GetMetaKey ==
    /\ pure.function = "__get_meta_key__"
    /\ ~pure.returned
    /\ pure' = [pure EXCEPT !.returned = TRUE,
                            !.result = get_meta_key(pure.metadata, pure.order)]
    /\ UNCHANGED <<self, db, emitted, log, lastCall, ncalls, budget, session>>

NextFlatten == GetMetaKey

SpecFlatten == InitFlatten /\ [][NextFlatten]_vars

(************************* ParsedTweet.__init__ ****************************)
None == <<"None", 0>>

\* the truth value of a Python value
truthy(value) ==
    CASE value[1] = "None" -> FALSE
      [] value[1] = "num" -> value[2] # 0
      [] value[1] = "dict" -> DOMAIN value[2] # {}
      [] OTHER -> value[2] # <<>>

\* A str holds its characters.  \w, \d and _ match the characters of Word,
\* \s matches those of Space.
Word == {"a", "b", "x", "7", "_"}

Space == {" "}

Ascii == Word \cup Space \cup {"#", "@"}

\* s.encode('utf8', 'replace').decode('ascii', 'replace'): a character
\* outside ASCII is two bytes or more in UTF-8, each decoded as U+FFFD.
RECURSIVE to_ascii(_)
to_ascii(s) ==
    IF s = <<>> THEN <<>>
    ELSE (IF Head(s) \in Ascii THEN <<Head(s)>> ELSE <<"U+FFFD", "U+FFFD">>) \o to_ascii(Tail(s))

\* The last position of the longest run of characters of class starting at
\* position p of s; p - 1 when there is none.
RECURSIVE run_end(_, _, _)
run_end(class, s, p) ==
    IF p <= Len(s) /\ s[p] \in class THEN run_end(class, s, p + 1) ELSE p - 1

\* re.split(r'\s+', s) from position p, token being the characters read
\* since the last separator
RECURSIVE split_from(_, _, _)
split_from(s, p, token) ==
    IF p > Len(s) THEN <<token>>
    ELSE IF s[p] \in Space
         THEN <<token>> \o split_from(s, run_end(Space, s, p) + 1, <<>>)
         ELSE split_from(s, p + 1, Append(token, s[p]))

split(s) == split_from(s, 1, <<>>)

\* re.findall(mark + r'[\w_\d]+', s) from position p
RECURSIVE findall_from(_, _, _)
findall_from(mark, s, p) ==
    IF p > Len(s) THEN <<>>
    ELSE IF s[p] = mark /\ run_end(Word, s, p + 1) > p
         THEN <<SubSeq(s, p, run_end(Word, s, p + 1))>> \o findall_from(mark, s, run_end(Word, s, p + 1) + 1)
         ELSE findall_from(mark, s, p + 1)

findall(mark, s) ==
    LET matches == findall_from(mark, s, 1)
    IN  List([n \in 1..Len(matches) |-> Str(matches[n])])

xxxxxxxx == <<"@", "x", "x", "x", "x", "x", "x", "x", "x">>

RECURSIVE sub_from(_, _)
RECURSIVE sub_from_tagged(_, _)
\* Mutant of sub_from: the user name is kept after the replacement.
sub_from_tagged(s, p) ==
    IF p > Len(s) THEN <<>>
    ELSE IF s[p] = "@" /\ run_end(Word, s, p + 1) > p
         THEN xxxxxxxx \o SubSeq(s, p + 1, run_end(Word, s, p + 1))
                       \o sub_from_tagged(s, run_end(Word, s, p + 1) + 1)
         ELSE <<s[p]>> \o sub_from_tagged(s, p + 1)

\* re.sub(r'@[\w\d_]+', '@xxxxxxxx', s) from position p
sub_from(s, p) ==
    IF p > Len(s) THEN <<>>
    ELSE IF s[p] = "@" /\ run_end(Word, s, p + 1) > p
         THEN xxxxxxxx \o sub_from(s, run_end(Word, s, p + 1) + 1)
         ELSE <<s[p]>> \o sub_from(s, p + 1)

sub(s) == sub_from(s, 1)

\* The order in which the dictionaries of a raw tweet hand out their keys.
\* No key occurs twice in the raw tweets of the model, so the flattened
\* metadata is the same in every order.
tweet_keys == <<"text", "lang", "entities", "hashtags", "user", "id", "coordinates", "type">>

\* An object whose __init__ has not run yet.
object == [text |-> <<>>, tokenized_text |-> <<>>, munged_text |-> <<>>, metadata |-> None,
           hashtags |-> None, has_meta_key |-> FALSE, meta_key |-> <<>>, uid |-> None]

\* metadata['entities']['hashtags'] and the list comprehension of lines
\* 128-130; KeyError leaves None.
hashtags_of(metadata) ==
    IF "entities" \notin DOMAIN metadata[2] THEN None
    ELSE IF "hashtags" \notin DOMAIN metadata[2]["entities"][2] THEN None
    ELSE LET hts == metadata[2]["entities"][2]["hashtags"]
         IN  IF truthy(hts)
             THEN List([n \in 1..Len(hts[2]) |-> hts[2][n][2]["text"]])
             ELSE None

\* ParsedTweet.get: an attribute of the object, else a key of meta_key
get_meta_key_attribute(o) == IF o.has_meta_key THEN Dict(o.meta_key) ELSE None

\* ParsedTweet.get_meta(value)
get_meta(o, value) ==
    IF truthy(get_meta_key_attribute(o))
    THEN IF value \in DOMAIN o.meta_key THEN o.meta_key[value] ELSE None
    ELSE None

\* value[key]; the exception it raises, if any
subscript_exc(value, key) ==
    IF value[1] = "dict"
    THEN IF key \in DOMAIN value[2] THEN "none" ELSE "KeyError"
    ELSE "TypeError"

\* lines 117-122: the text, its tokens and its munged form
set_text(o, text, chars, metadata) ==
    [o EXCEPT !.text = to_ascii(chars), !.tokenized_text = split(text[2]),
              !.munged_text = sub(to_ascii(chars)), !.metadata = metadata]

\* lines 124-132: the flattened metadata and the hashtags it lists
set_meta_key(o, metadata) ==
    IF truthy(metadata)
    THEN [o EXCEPT !.has_meta_key = TRUE,
                   !.meta_key = get_meta_key(metadata[2], tweet_keys),
                   !.hashtags = hashtags_of(metadata)]
    ELSE o

\* line 133
set_hashtags(o, text) ==
    [o EXCEPT !.hashtags = IF truthy(o.hashtags) THEN o.hashtags ELSE findall("#", text[2])]

\* line 134, user being self.get_meta('user')
set_uid(o, user) ==
    IF subscript_exc(user, "id") = "none"
    THEN [exc |-> "none", self |-> [o EXCEPT !.uid = user[2]["id"]]]
    ELSE [exc |-> subscript_exc(user, "id"), self |-> o]

init_uid(o) == set_uid(o, get_meta(o, "user"))

\* text or metadata.get('text', '')
text_or_metadata(text, metadata) ==
    IF truthy(text) THEN text[2]
    ELSE IF "text" \in DOMAIN metadata[2] THEN metadata[2]["text"][2] ELSE <<>>

\* ParsedTweet(text, metadata): text is a str, metadata a dict or None.
\* The exception __init__ raises, if any, and the object as far as it was
\* built.
ParsedTweet_init(text, metadata) ==
    IF ~truthy(text) /\ metadata = None
    THEN [exc |-> "AttributeError", self |-> object]
    ELSE init_uid(set_hashtags(set_meta_key(set_text(object, text,
                                                    text_or_metadata(text, metadata), metadata),
                                           metadata),
                              text))

(****************************** Twitterizer ********************************)
en == Str(<<"e", "n">>)

fr == Str(<<"f", "r">>)

\* Raw tweets as the sample hands them out.
raw_tweet(text, lang, hashtags, id) ==
    [k \in {"text", "lang", "entities", "user"} |->
        CASE k = "text" -> Str(text)
          [] k = "lang" -> lang
          [] k = "entities" -> Dict(Item("hashtags", List(hashtags)))
          [] k = "user" -> Dict(Item("id", Num(id)))]

hashtag_b == Dict(Item("text", Str(<<"b">>)))

tweet_en == raw_tweet(<<"a", " ", "#", "b">>, en, <<hashtag_b>>, 7)

tweet_en_too == raw_tweet(<<"@", "a", " ", "#", "b">>, en, <<hashtag_b>>, 8)

tweet_fr == raw_tweet(<<"a", " ", "#", "b">>, fr, <<hashtag_b>>, 7)

tweet_no_lang == without_keys(tweet_en, {"lang"})

tweet_no_entities == without_keys(tweet_en, {"entities"})

FeedTweets == {tweet_en, tweet_en_too, tweet_fr, tweet_no_lang, tweet_no_entities}

\* Every raw tweet with or without text (empty or not), a language, entities
\* (with or without hashtags) and a user.
RawTweets ==
    {without_keys(raw_tweet(text, lang, hashtags, 7), absent) :
        text \in {<<>>, <<"a", " ", "#", "b">>}, lang \in {en, fr},
        hashtags \in {<<>>, <<hashtag_b>>},
        absent \in SUBSET {"text", "lang", "entities", "user"}}

\* bounds of a Twitterizer run: length of the sample, and the limit asked for
MaxFeed == 3

MaxLimit == 2

\* Mutant of accept: the language is compared before its presence is checked.
accept_lang_first(tweet, hash_only, lang, lang_none) ==
    IF "text" \notin DOMAIN tweet THEN "reject"
    ELSE IF "lang" \notin DOMAIN tweet THEN "KeyError"
    ELSE IF tweet["lang"] # lang \/ lang_none THEN "reject"
    ELSE IF ~hash_only THEN "accept"
    ELSE IF "entities" \notin DOMAIN tweet THEN "KeyError"
    ELSE IF "hashtags" \notin DOMAIN tweet["entities"][2] THEN "KeyError"
    ELSE IF truthy(tweet["entities"][2]["hashtags"]) THEN "accept"
    ELSE "reject"

\* The nested conditions of lines 451-454 (get_tweets) and 486-489
\* (parse_tweet): "accept", "reject", or the exception a subscript raises.
\* `and` evaluates tweet["lang"] only when its left operand is true.
accept(tweet, hash_only, lang, lang_none) ==
    IF "text" \notin DOMAIN tweet THEN "reject"
    ELSE IF lang_none = ("lang" \in DOMAIN tweet) THEN "reject"
    ELSE IF "lang" \notin DOMAIN tweet THEN "KeyError"
    ELSE IF tweet["lang"] # lang THEN "reject"
    ELSE IF ~hash_only THEN "accept"
    ELSE IF "entities" \notin DOMAIN tweet THEN "KeyError"
    ELSE IF "hashtags" \notin DOMAIN tweet["entities"][2] THEN "KeyError"
    ELSE IF truthy(tweet["entities"][2]["hashtags"]) THEN "accept"
    ELSE "reject"

\* lines 455-461: every key but "text", or None
metadata_of(tweet, meta) == IF meta THEN Dict(without_keys(tweet, {"text"})) ELSE None

\* What parse_tweet returns or raises, given the outcome of its conditions
\* and of ParsedTweet(...).
parse_tweet_outcome(accepted, built) ==
    CASE accepted = "reject" -> [exc |-> "none", value |-> None]
      [] accepted = "accept" /\ built.exc = "none" ->
             [exc |-> "none", value |-> <<"ParsedTweet", built.self>>]
      [] accepted = "accept" /\ built.exc # "none" -> [exc |-> built.exc, value |-> None]
      [] OTHER -> [exc |-> accepted, value |-> None]

\* Twitterizer.parse_tweet: the exception raised, if any, and the value
\* returned: a ParsedTweet object or None.
Twitterizer_parse_tweet(tweet, hash_only, meta, lang, lang_none) ==
    parse_tweet_outcome(accept(tweet, hash_only, lang, lang_none),
                        IF "text" \in DOMAIN tweet
                        THEN ParsedTweet_init(tweet["text"], metadata_of(tweet, meta))
                        ELSE [exc |-> "none", self |-> object])

\* sample.next() and the conditions on the tweet it hands out
next_tweet(args, pulled) ==
    Twitterizer_parse_tweet(args.sample[pulled + 1], args.hash_only, args.meta, args.lang,
                            args.lang_none)

\* The arguments of a run, and how far it got: i, the tweets it produced,
\* the number of items it took from the sample, what it printed, the
\* exception that left it, and whether StopIteration was caught.
run_state(args, i, tweets, pulled, status, exc, exhausted) ==
    [args |-> args, i |-> i, tweets |-> tweets, pulled |-> pulled, status |-> status,
     exc |-> exc, exhausted |-> exhausted, printed |-> <<>>]

RECURSIVE get_tweets_while(_, _, _, _)
\* The body of the loop of get_tweets for the tweet t the sample handed out.
get_tweets_try(args, i, tweets, pulled, t) ==
    IF t.exc # "none" THEN run_state(args, i, tweets, pulled + 1, "raised", t.exc, FALSE)
    ELSE IF t.value # None
         THEN get_tweets_while(args, i + 1, Append(tweets, t.value), pulled + 1)
         ELSE get_tweets_while(args, i, tweets, pulled + 1)

\* Mutant of get_tweets_while: StopIteration is not caught.
get_tweets_while_uncaught(args, i, tweets, pulled) ==
    IF ~(i < args.limit) THEN run_state(args, i, tweets, pulled, "returned", "none", FALSE)
    ELSE IF pulled = Len(args.sample)
         THEN run_state(args, i, tweets, pulled, "raised", "StopIteration", TRUE)
         ELSE get_tweets_try(args, i, tweets, pulled, next_tweet(args, pulled))

\* The loop of get_tweets, lines 448-480.  Its body applies the conditions
\* of parse_tweet and builds the ParsedTweet in the same way.
get_tweets_while(args, i, tweets, pulled) ==
    IF ~(i < args.limit) THEN run_state(args, i, tweets, pulled, "returned", "none", FALSE)
    ELSE IF pulled = Len(args.sample)
         THEN [run_state(args, i, tweets, pulled, "returned", "none", TRUE)
                  EXCEPT !.printed = <<"sample seems not to have any tweets">>]
         ELSE get_tweets_try(args, i, tweets, pulled, next_tweet(args, pulled))

\* The print of line 482.
print_returned(args, left) ==
    IF left.exc = "none" /\ args.verbose
    THEN [left EXCEPT !.printed = Append(left.printed, <<left.i, "tweets returned">>)]
    ELSE left

\* Twitterizer.get_tweets
get_tweets(args) == print_returned(args, get_tweets_while(args, 0, <<>>, 0))

RECURSIVE tweet_iterator_while(_, _, _, _)
\* The body of the loop of tweet_iterator for the value t of parse_tweet;
\* after the yield the sample stands at `after`.
tweet_iterator_try(args, i, tweets, pulled, t, after) ==
    IF t.exc # "none" THEN run_state(args, i, tweets, pulled + 1, "raised", t.exc, FALSE)
    ELSE IF t.value # None
         THEN run_state(args, i, Append(tweets, t.value), after, "suspended", "none", FALSE)
         ELSE tweet_iterator_while(args, i, tweets, pulled + 1)

\* Mutant of tweet_iterator_while: the next item is taken from the sample
\* before the tweet is yielded.
tweet_iterator_while_ahead(args, i, tweets, pulled) ==
    IF ~(i <= args.limit) THEN run_state(args, i, tweets, pulled, "returned", "none", FALSE)
    ELSE IF pulled = Len(args.sample)
         THEN run_state(args, i, tweets, pulled, "returned", "none", TRUE)
         ELSE tweet_iterator_try(args, i, tweets, pulled, next_tweet(args, pulled),
                                 Min(pulled + 2, Len(args.sample)))

\* The loop of tweet_iterator, lines 511-518, from its test to the next
\* yield, where the generator is suspended, or to its end.
tweet_iterator_while(args, i, tweets, pulled) ==
    IF ~(i <= args.limit) THEN run_state(args, i, tweets, pulled, "returned", "none", FALSE)
    ELSE IF pulled = Len(args.sample)
         THEN run_state(args, i, tweets, pulled, "returned", "none", TRUE)
         ELSE tweet_iterator_try(args, i, tweets, pulled, next_tweet(args, pulled), pulled + 1)

\* next() on the generator: from its start, or from the yield that
\* suspended it (where i += 1 is the next statement).
tweet_iterator_next(run) ==
    IF run.status = "suspended"
    THEN tweet_iterator_while(run.args, run.i + 1, run.tweets, run.pulled)
    ELSE tweet_iterator_while(run.args, 0, <<>>, 0)

\* The arguments of get_tweets and tweet_iterator other than the sample.
KeywordArguments ==
    [limit : 0..MaxLimit, hash_only : BOOLEAN, lang : {en}, lang_none : BOOLEAN,
     meta : BOOLEAN, verbose : BOOLEAN]

Arguments(sample, kw) ==
    [sample |-> sample, limit |-> kw.limit, hash_only |-> kw.hash_only, lang |-> kw.lang,
     lang_none |-> kw.lang_none, meta |-> kw.meta, verbose |-> kw.verbose]

\* A Twitterizer on any sample of at most MaxFeed raw tweets.
InitStream ==
    /\ InitWith(Database({}, {}, {}), 0)
    /\ pure = NoArgument
    /\ \E sample \in SeqsUpTo(FeedTweets, MaxFeed) :
           session = [method |-> "__init__", sample |-> sample]

GetTweets ==
    /\ session.method = "__init__"
    /\ \E kw \in KeywordArguments :
           session' = [method |-> "get_tweets", sample |-> session.sample,
                       run |-> get_tweets(Arguments(session.sample, kw))]
    /\ UNCHANGED <<self, db, emitted, log, lastCall, ncalls, budget, pure>>

\* get_tweet_iterator(...) and the consumer's first next()
TweetIterator ==
    /\ session.method = "__init__"
    /\ \E kw \in {a \in KeywordArguments : ~a.verbose} :
           session' = [method |-> "tweet_iterator", sample |-> session.sample,
                       run |-> tweet_iterator_next(run_state(Arguments(session.sample, kw), 0,
                                                             <<>>, 0, "created", "none", FALSE))]
    /\ UNCHANGED <<self, db, emitted, log, lastCall, ncalls, budget, pure>>

\* a further next() of the consumer
TweetIteratorNext ==
    /\ session.method = "tweet_iterator"
    /\ session.run.status = "suspended"
    /\ session' = [session EXCEPT !.run = tweet_iterator_next(session.run)]
    /\ UNCHANGED <<self, db, emitted, log, lastCall, ncalls, budget, pure>>

NextStream == GetTweets \/ TweetIterator \/ TweetIteratorNext

SpecStream == InitStream /\ [][NextStream]_vars

\* Twitterizer.parse_tweet called on its own, on any raw tweet.
InitFilter ==
    /\ InitWith(Database({}, {}, {}), 0)
    /\ session = NoSession
    /\ \E tweet \in RawTweets, hash_only \in BOOLEAN, meta \in BOOLEAN, lang \in {en, fr},
          lang_none \in BOOLEAN :
           pure = [function |-> "parse_tweet", raw_tweet |-> tweet, hash_only |-> hash_only,
                   meta |-> meta, lang |-> lang, lang_none |-> lang_none,
                   returned |-> FALSE, result |-> [exc |-> "none", value |-> None]]

ParseRawTweet ==
    /\ pure.function = "parse_tweet"
    /\ ~pure.returned
    /\ pure' = [pure EXCEPT !.returned = TRUE,
                            !.result = Twitterizer_parse_tweet(pure.raw_tweet, pure.hash_only,
                                                               pure.meta, pure.lang, pure.lang_none)]
    /\ UNCHANGED <<self, db, emitted, log, lastCall, ncalls, budget, session>>

NextFilter == ParseRawTweet

SpecFilter == InitFilter /\ [][NextFilter]_vars

(************************ reading a file of tweets *************************)
\* A line of the file to_json writes: json.loads gives its value, the list
\* [text, metadata], or raises ValueError when the line is not JSON.
line(text, metadata) == [json |-> TRUE, value |-> List(<<Str(text), metadata>>)]

line_a == line(<<"a", " ", "#", "b">>, Dict(Item("user", Dict(Item("id", Num(7))))))

line_b == line(<<"b">>, Dict(Item("user", Dict(Item("id", Num(8))))))

\* the line of a ParsedTweet built with metadata = None
line_null == line(<<"a">>, None)

line_not_json == [json |-> FALSE, value |-> None]

FileLines == {line_a, line_b, line_null, line_not_json}

json_loads(s) ==
    IF s.json THEN [exc |-> "none", value |-> s.value] ELSE [exc |-> "ValueError", value |-> None]

\* ParsedTweet(json.loads(x)[0], json.loads(x)[1]), loaded being json.loads(x)
ParsedTweet_of(loaded) ==
    IF loaded.exc # "none" THEN [exc |-> loaded.exc, self |-> object]
    ELSE ParsedTweet_init(loaded.value[2][1], loaded.value[2][2])

ParsedTweet_of_line(x) == ParsedTweet_of(json_loads(x))

RECURSIVE json_to_parsed_for(_, _)
\* The body of the loop of json_to_parsed: the object built for a line is
\* dropped, ValueError is passed over.
json_to_parsed_try(l, tweets, made) ==
    IF made.exc \in {"none", "ValueError"}
    THEN json_to_parsed_for(Tail(l), tweets)
    ELSE [exc |-> made.exc, tweets |-> tweets]

\* The loop of json_to_parsed over the lines still to read.
json_to_parsed_for(l, tweets) ==
    IF l = <<>> THEN [exc |-> "none", tweets |-> tweets]
    ELSE json_to_parsed_try(l, tweets, ParsedTweet_of_line(Head(l)))

\* l[:limit]
slice(l, limit) == SubSeq(l, 1, Min(limit, Len(l)))

\* json_to_parsed(infile, maximum), l being the lines of infile
json_to_parsed(l, maximum) ==
    json_to_parsed_for(slice(l, IF truthy(maximum) THEN maximum[2] ELSE Len(l)), <<>>)

\* The body of the loop of tweet_generator, made being ParsedTweet(...).
tweet_generator_try(i, tweets, made) ==
    IF made.exc # "none"
    THEN [i |-> i, tweets |-> tweets, status |-> "raised", exc |-> made.exc]
    ELSE [i |-> i, tweets |-> Append(tweets, <<"ParsedTweet", made.self>>),
          status |-> "suspended", exc |-> "none"]

\* Twitterator.tweet_generator from the test of its loop to the next yield,
\* or to its end.
tweet_generator_while(lines, i, tweets) ==
    IF ~(i < Len(lines)) THEN [i |-> i, tweets |-> tweets, status |-> "returned", exc |-> "none"]
    ELSE tweet_generator_try(i, tweets, ParsedTweet_of_line(lines[i + 1]))

\* A file of at most MaxFeed lines.
InitBatch ==
    /\ InitWith(Database({}, {}, {}), 0)
    /\ session = NoSession
    /\ \E lines \in SeqsUpTo(FileLines, MaxFeed) : pure = [function |-> "open", lines |-> lines]

JsonToParsed ==
    /\ pure.function = "open"
    /\ \E maximum \in {None} \cup {Num(n) : n \in 0..MaxFeed} :
           LET left == json_to_parsed(pure.lines, maximum)
           IN  pure' = [function |-> "json_to_parsed", lines |-> pure.lines, maximum |-> maximum,
                        tweets |-> left.tweets, exc |-> left.exc, status |-> "returned", i |-> 0]
    /\ UNCHANGED <<self, db, emitted, log, lastCall, ncalls, budget, session>>

\* tweet_generator() and the consumer's first next()
TweetGenerator ==
    /\ pure.function = "open"
    /\ LET left == tweet_generator_while(pure.lines, 0, <<>>)
       IN  pure' = [function |-> "tweet_generator", lines |-> pure.lines, maximum |-> None,
                    tweets |-> left.tweets, exc |-> left.exc, status |-> left.status, i |-> left.i]
    /\ UNCHANGED <<self, db, emitted, log, lastCall, ncalls, budget, session>>

\* a further next(): i += 1 follows the yield
TweetGeneratorNext ==
    /\ pure.function = "tweet_generator"
    /\ pure.status = "suspended"
    /\ LET left == tweet_generator_while(pure.lines, pure.i + 1, pure.tweets)
       IN  pure' = [pure EXCEPT !.tweets = left.tweets, !.exc = left.exc,
                                !.status = left.status, !.i = left.i]
    /\ UNCHANGED <<self, db, emitted, log, lastCall, ncalls, budget, session>>

NextBatch == JsonToParsed \/ TweetGenerator \/ TweetGeneratorNext

SpecBatch == InitBatch /\ [][NextBatch]_vars

(********************** ParsedTweet.get_coordinates ************************)
\* number of single-element lists around a coordinates value
MaxWrap == 3

isinstance_list(value) == value[1] = "list"

\* value[0]: the exception it raises, if any
first_exc(value) ==
    CASE value[1] \in {"list", "str"} -> IF value[2] = <<>> THEN "IndexError" ELSE "none"
      [] value[1] = "dict" -> "KeyError"
      [] OTHER -> "TypeError"

\* The while loop of get_coordinates, whose else branch returns.
RECURSIVE get_coordinates_while(_)
get_coordinates_while(coordinates) ==
    IF first_exc(coordinates) # "none" THEN [exc |-> first_exc(coordinates), value |-> None]
    ELSE IF coordinates[1] = "list" /\ isinstance_list(coordinates[2][1])
         THEN get_coordinates_while(coordinates[2][1])
         ELSE [exc |-> "none", value |-> coordinates]

\* ParsedTweet.get_coordinates of the object o: the exception raised, if
\* any, and the value returned.
ParsedTweet_get_coordinates(o) ==
    IF truthy(get_meta(o, "coordinates"))
    THEN get_coordinates_while(get_meta(o, "coordinates"))
    ELSE [exc |-> "none", value |-> None]

Numbers == {0, 12, 45, 90}

Pairs2 == {List(<<Num(lon), Num(lat)>>) : lon \in Numbers, lat \in Numbers}

\* value inside n single-element lists
RECURSIVE wrapped(_, _)
wrapped(value, n) == IF n = 0 THEN value ELSE List(<<wrapped(value, n - 1)>>)

WrappedPairs == {wrapped(pair, n) : pair \in Pairs2, n \in 0..MaxWrap}

\* Values of the coordinates field that are no pair in single-element lists.
Malformed ==
    {wrapped(value, n) : value \in {List(<<>>), List(<<Num(12)>>),
                                     List(<<Num(0), Num(12), Num(45)>>)},
                         n \in 0..MaxWrap}
    \cup {Num(12), Num(0), Str(<<"a", "b">>), Str(<<>>), Dict(Item("type", Str(<<"a">>)))}

user_7 == Item("user", Dict(Item("id", Num(7))))

\* A ParsedTweet whose metadata has the given coordinates field, or none.
InitCoordinates ==
    /\ InitWith(Database({}, {}, {}), 0)
    /\ session = NoSession
    /\ \E field \in {<<>>} \cup {<<value>> : value \in WrappedPairs \cup Malformed} :
           pure = [function |-> "get_coordinates", field |-> field, returned |-> FALSE,
                   tweet |-> ParsedTweet_init(Str(<<"a">>),
                                  Dict(IF field = <<>> THEN user_7
                                       ELSE update(user_7, Item("coordinates", field[1])))).self,
                   result |-> [exc |-> "none", value |-> None]]

GetCoordinates ==
    /\ pure.function = "get_coordinates"
    /\ ~pure.returned
    /\ pure' = [pure EXCEPT !.returned = TRUE, !.result = ParsedTweet_get_coordinates(pure.tweet)]
    /\ UNCHANGED <<self, db, emitted, log, lastCall, ncalls, budget, session>>

NextCoordinates == GetCoordinates

SpecCoordinates == InitCoordinates /\ [][NextCoordinates]_vars

(***************************** munged text ********************************)
\* length of a tweet's text
MaxText == 4

TextChars == {"@", "a", "x", "_", " ", "#"}

\* Any text of at most MaxText characters.
InitMunge ==
    /\ InitWith(Database({}, {}, {}), 0)
    /\ session = NoSession
    /\ \E text \in SeqsUpTo(TextChars, MaxText) :
           pure = [function |-> "re.sub", text |-> text, times |-> 0, munged_text |-> text,
                   before |-> text]

\* re.sub(self.munge_p, '@xxxxxxxx', ...) applied to the text, then to its
\* result.
Munge ==
    /\ pure.function = "re.sub"
    /\ pure.times < 2
    /\ pure' = [pure EXCEPT !.times = @ + 1, !.munged_text = sub(pure.munged_text),
                            !.before = pure.munged_text]
    /\ UNCHANGED <<self, db, emitted, log, lastCall, ncalls, budget, session>>

NextMunge == Munge

SpecMunge == InitMunge /\ [][NextMunge]_vars

(************************ Twitterator.add_new_competitor *******************)
\* The rows of a set in the order of their ids (a QuerySet without order_by
\* comes in the order of the primary key here).
RECURSIVE by_id(_)
by_id(rows) ==
    IF rows = {} THEN <<>>
    ELSE LET first == CHOOSE r \in rows : \A other \in rows : r.id <= other.id
         IN  <<first>> \o by_id(rows \ {first})

\* Hashtag.objects.filter(tweet__pk=pk); the lookup is put on the log.
hashtags_filter(w, pk) == by_id({r \in w.db.Hashtag : pk \in r.tweet})

filter_logged(w, pk) ==
    [w EXCEPT !.log = Append(@, [table |-> "Hashtag.objects.filter", id |-> pk,
                                 row |-> <<>>, ok |-> TRUE, call |-> w.call])]

\* for tag in tags: the loop over j, which is the inner loop of
\* competitors_to_db started at 1
RECURSIVE add_new_competitor_for(_, _)
add_new_competitor_for(w, tags) ==
    IF tags = <<>> \/ w.exc # "none" THEN w
    ELSE add_new_competitor_for(competitors_to_db_j(w, Head(tags), 1), Tail(tags))

\* The statements after self.tweet_to_db(tweet), which left the world w.
add_new_competitor_tags(w) ==
    IF w.exc # "none" THEN w
    ELSE add_new_competitor_for(filter_logged(w, w.self.tweet_i),
                                hashtags_filter(w, w.self.tweet_i))

add_new_competitor(w, tweet) == add_new_competitor_tags(tweet_to_db(w, tweet))

AddNewCompetitor ==
    /\ ncalls < budget
    /\ \E tweet \in Posts :
           Returns("add_new_competitor", tweet, add_new_competitor(World, tweet))

\* Database mode with add_new_competitor.
NextAdd == AddNewCompetitor \/ TweetToDb

SpecAdd == InitDb /\ [][NextAdd]_vars

(******************************* properties ********************************)
\* The records handed to self.fixtures.append for the template ref, in order.
Emitted(ref) ==
    LET es == SelectSeq(emitted, LAMBDA e : e.ref = ref)
    IN  [i \in 1..Len(es) |-> es[i].value]

\* Those of them that the last call emitted.
EmittedInCall(ref) ==
    LET es == SelectSeq(SubSeq(emitted, lastCall.base + 1, Len(emitted)),
                        LAMBDA e : e.ref = ref)
    IN  [i \in 1..Len(es) |-> es[i].value]

Texts(records) == [i \in 1..Len(records) |-> records[i].fields.text]

\* <<tag1, tag2>> of every competitors record
Pairs(records) ==
    [i \in 1..Len(records) |-> <<records[i].fields.tag1, records[i].fields.tag2>>]

\* how often the value v occurs in the sequence q
Count(q, v) == Cardinality({i \in 1..Len(q) : q[i] = v})

Distinct(q) == \A i, j \in 1..Len(q) : i # j => q[i] # q[j]

Serialized == lastCall.op = "serialize_competitors" /\ lastCall.exc = "none"

\* A fresh builder has been given A (x, y), B (y, z), C (no tags) and then
\* serialize_competitors.
ScenarioABC ==
    /\ Serialized
    /\ ncalls = 4
    /\ Texts(Emitted("tweet_fixture")) = <<"A", "B", "C">>

\* C1 as stated: the A, B, C scenario ends with 3 Post records, 4 Tag
\* records (x, y, y, z) and exactly 4 TagPair records: (z,y), (z,y), (z,x),
\* (y,x) in some order.
C1_Original ==
    ScenarioABC =>
        LET ps == Pairs(Emitted("competitor_fixture"))
        IN  /\ Len(Emitted("tweet_fixture")) = 3
            /\ Texts(Emitted("hash_fixture")) = <<"x", "y", "y", "z">>
            /\ Len(ps) = 4
            /\ Count(ps, <<"z", "y">>) = 2
            /\ Count(ps, <<"z", "x">>) = 1
            /\ Count(ps, <<"y", "x">>) = 1

\* C1 amended: the A, B, C scenario ends with 3 Post records, 4 Tag records
\* (x, y, y, z) and exactly 5 TagPair records: (z,x), (z,y), (z,y) and (y,x)
\* twice, once for each of the two y occurrences.
C1_Scenario ==
    ScenarioABC =>
        LET ps == Pairs(Emitted("competitor_fixture"))
        IN  /\ Len(Emitted("tweet_fixture")) = 3
            /\ Texts(Emitted("hash_fixture")) = <<"x", "y", "y", "z">>
            /\ Len(ps) = 5
            /\ Count(ps, <<"z", "y">>) = 2
            /\ Count(ps, <<"z", "x">>) = 1
            /\ Count(ps, <<"y", "x">>) = 2

C1_Witness ==
    /\ ScenarioABC
    /\ Len(Emitted("competitor_fixture")) = 5
    /\ self.competitors = <<>>

\* C2: when the N occurrences handed to serialize_competitors have pairwise
\* different texts, it emits exactly N*(N-1)/2 competitors records, no
\* unordered pair of texts twice, and none with tag1 = tag2.
C2_DistinctPairs ==
    (Serialized /\ Distinct(lastCall.occ)) =>
        LET ps == Pairs(EmittedInCall("competitor_fixture"))
            N  == Len(lastCall.occ)
        IN  /\ 2 * Len(ps) = N * (N - 1)
            /\ \A i, j \in 1..Len(ps) :
                   i # j => {ps[i][1], ps[i][2]} # {ps[j][1], ps[j][2]}
            /\ \A i \in 1..Len(ps) : ps[i][1] # ps[i][2]

C2_Witness ==
    /\ Serialized
    /\ Distinct(lastCall.occ)
    /\ Len(lastCall.occ) = 4
    /\ Len(EmittedInCall("competitor_fixture")) = 6

\* C3: for every occurrence list, serialize_competitors emits one record for
\* each pair of positions i < j whose texts differ and none for a pair whose
\* texts are equal: for texts a # b the records pairing a with b number
\* (occurrences of a) * (occurrences of b), no record pairs a text with
\* itself, and the records number the position pairs with different texts.
C3_OnePerDifferingPair ==
    Serialized =>
        LET ps  == Pairs(EmittedInCall("competitor_fixture"))
            occ == lastCall.occ
        IN  /\ \A a, b \in Tags :
                   a # b =>
                     Cardinality({i \in 1..Len(ps) : {ps[i][1], ps[i][2]} = {a, b}})
                       = Count(occ, a) * Count(occ, b)
            /\ \A i \in 1..Len(ps) : ps[i][1] # ps[i][2]
            /\ Len(ps) = Cardinality({ij \in (1..Len(occ)) \X (1..Len(occ)) :
                                         ij[1] < ij[2] /\ occ[ij[1]] # occ[ij[2]]})

C3_Witness ==
    /\ Serialized
    /\ lastCall.occ = <<"x", "y", "y", "z">>
    /\ Len(EmittedInCall("competitor_fixture")) = 5

\* The occurrence list q without the occurrences of the text d.
Without(q, d) == SelectSeq(q, LAMBDA t : t # d)

\* The number of records serialize_competitors emits for the list occ.
PairsEmittedFor(occ) ==
    Len(serialize_competitors(
            [self |-> [Twitterator EXCEPT !.competitors = occ], db |-> db,
             emitted |-> <<>>, log |-> <<>>, call |-> 0, exc |-> "none"]).emitted)

\* C4: when k >= 2 occurrences share the text d, no emitted record pairs d
\* with d, and the emitted records that do not involve d are as many as
\* serialize_competitors emits for the list without the occurrences of d.
C4_DuplicatesNeverPair ==
    Serialized =>
        LET ps  == Pairs(EmittedInCall("competitor_fixture"))
            occ == lastCall.occ
        IN  \A d \in Tags :
                Count(occ, d) >= 2 =>
                    /\ Count(ps, <<d, d>>) = 0
                    /\ Cardinality({i \in 1..Len(ps) : ps[i][1] # d /\ ps[i][2] # d})
                         = PairsEmittedFor(Without(occ, d))

C4_Witness ==
    /\ Serialized
    /\ lastCall.occ = <<"x", "y", "x", "z">>
    /\ Len(EmittedInCall("competitor_fixture")) = 5

\* C5 as stated: in the list self.fixtures every record has a pk > 0, and
\* the pks of the records of one model are pairwise different and increase
\* in list order.
C5_ListIdsIncrease ==
    LET fs == Fixtures(self)
    IN  /\ \A i \in 1..Len(fs) : fs[i].pk > 0
        /\ \A i, j \in 1..Len(fs) :
               (i < j /\ fs[i].model = fs[j].model) => fs[i].pk < fs[j].pk

\* The create requests of the last call for one table.
RequestsInCall(table) ==
    SelectSeq(SubSeq(log, lastCall.logbase + 1, Len(log)),
              LAMBDA e : e.table = table)

ConflictsInCall(table) ==
    Len(SelectSeq(RequestsInCall(table), LAMBDA e : ~e.ok))

Ingested == lastCall.op \in {"parse_tweet", "tweet_to_db"} /\ lastCall.exc = "none"

\* C6 as stated: every call of parse_tweet or tweet_to_db advances tweet_i
\* by exactly one and hash_i by exactly the number of tags of the tweet.
C6_Original ==
    Ingested =>
        /\ self.tweet_i = lastCall.tweet_i + 1
        /\ self.hash_i = lastCall.hash_i + Len(lastCall.tweet.hashtags)

\* C6 amended: every call of parse_tweet or tweet_to_db advances tweet_i by
\* one plus the number of uniqueness conflicts met while saving the tweet,
\* and hash_i by the number of tags plus the number of conflicts met while
\* saving them; parse_tweet, which saves nothing, advances them by exactly
\* one and by the number of tags.
C6_CountersAdvance ==
    Ingested =>
        /\ self.tweet_i = lastCall.tweet_i + 1 + ConflictsInCall("Tweet")
        /\ self.hash_i = lastCall.hash_i + Len(lastCall.tweet.hashtags)
                           + ConflictsInCall("Hashtag")
        /\ lastCall.op = "parse_tweet" =>
               ConflictsInCall("Tweet") + ConflictsInCall("Hashtag") = 0
        /\ self.competitors_i = lastCall.competitors_i

C6_Witness ==
    /\ Ingested
    /\ lastCall.op = "tweet_to_db"
    /\ Len(lastCall.tweet.hashtags) = 2
    /\ ConflictsInCall("Tweet") = 2
    /\ ConflictsInCall("Hashtag") = 1

\* C7 as stated: every Tag record of self.fixtures carries, as its tweet,
\* the pk of the Post record that the same parse_tweet call put on the list.
C7_TagsPointToTheirPost ==
    LET fs == Fixtures(self)
    IN  \A i, j \in 1..Len(fs) :
            (/\ self.fixtures[i] = "tweet_fixture"
             /\ self.fixtures[j] = "hash_fixture"
             /\ emitted[i].call = emitted[j].call)
            => fs[j].fields.tweet = fs[i].pk

\* C8 as stated: for each of the three tables, a create that is refused for
\* a taken identifier is followed, in the same call, by a create of the same
\* row under the identifier one higher, and the call does not end in an
\* error.
C8_RetryNextId ==
    /\ lastCall.exc = "none"
    /\ \A p \in 1..Len(log) :
           ~log[p].ok =>
               /\ p < Len(log)
               /\ log[p + 1].call = log[p].call
               /\ log[p + 1].table = log[p].table
               /\ log[p + 1].id = log[p].id + 1
               /\ log[p + 1].row = log[p].row

\* C9 as stated: no write is retried more often than the retry ceiling, and
\* a write that has met that many conflicts ends in an allocation-exhausted
\* error.
C9_RetriesBounded ==
    \A table \in {"Tweet", "Hashtag", "Competitors"} :
        \A p \in 1..Len(log) :
            LET run == {q \in 1..p : \A r \in q..p :
                            /\ log[r].table = table
                            /\ ~log[r].ok
                            /\ log[r].call = log[p].call
                            /\ log[r].row = log[p].row}
            IN  /\ Cardinality(run) <= RetryCeiling
                /\ Cardinality(run) = RetryCeiling =>
                       (p = Len(log) /\ lastCall.exc = "AllocationExhausted")

\* C10: for each table, the identifiers of the create requests increase
\* strictly in the order of the requests, so the committed identifiers are
\* pairwise different, increase strictly, and none is requested again after
\* it was committed; every committed identifier is held by a row of the
\* table.
C10_CommittedIdsIncrease ==
    /\ \A p, q \in 1..Len(log) :
           (p < q /\ log[p].table = log[q].table) => log[p].id < log[q].id
    /\ \A p \in 1..Len(log) :
           log[p].ok =>
               \E r \in db[log[p].table] : r.id = log[p].id

C10_Witness ==
    \E p, q, r \in 1..Len(log) :
        /\ p < q /\ q < r
        /\ log[p].table = "Tweet" /\ log[q].table = "Tweet" /\ log[r].table = "Tweet"
        /\ ~log[p].ok /\ log[q].ok /\ log[r].ok
        /\ log[q].call < log[r].call

\* The positions in the sample of the raw tweets parse_tweet turns into a
\* ParsedTweet under the arguments args.
AcceptablePositions(args) ==
    SelectSeq([n \in 1..Len(args.sample) |-> n],
              LAMBDA n : Twitterizer_parse_tweet(args.sample[n], args.hash_only, args.meta,
                                                 args.lang, args.lang_none).value # None)

\* The ParsedTweets of the first k of them, in the order of the sample.
FirstAcceptable(args, k) ==
    [j \in 1..k |-> Twitterizer_parse_tweet(args.sample[AcceptablePositions(args)[j]],
                                            args.hash_only, args.meta, args.lang,
                                            args.lang_none).value]

Running == session.method \in {"get_tweets", "tweet_iterator"}

\* C11: a run of get_tweets or of tweet_iterator with limit L produces at
\* most L ParsedTweets, and takes nothing from the sample after the one that
\* became the L-th.
C11_AtMostLimit ==
    Running =>
        LET run == session.run
            limit == run.args.limit
        IN  /\ Len(run.tweets) <= limit
            /\ limit = 0 => run.pulled = 0
            /\ (limit > 0 /\ Len(run.tweets) >= limit)
                   => run.pulled = AcceptablePositions(run.args)[limit]

\* C12: a run that returned produced exactly the first min(limit, number of
\* acceptable raw tweets) acceptable raw tweets of the sample, in its order:
\* a rejected one is dropped and not counted.
C12_FirstAcceptable ==
    (Running /\ session.run.status = "returned") =>
        LET run == session.run
        IN  run.tweets = FirstAcceptable(run.args, Min(run.args.limit,
                                                       Len(AcceptablePositions(run.args))))

\* C13: when the sample is exhausted before limit tweets were accepted, the
\* run returns without an exception, what it produced is every acceptable
\* tweet of the sample in order, and a count it prints is the number of
\* tweets returned.
C13_ExhaustedFeed ==
    (Running /\ session.run.exhausted /\ Len(session.run.tweets) < session.run.args.limit) =>
        LET run == session.run
        IN  /\ run.status = "returned"
            /\ run.exc = "none"
            /\ run.tweets = FirstAcceptable(run.args, Len(AcceptablePositions(run.args)))
            /\ \A n \in 1..Len(run.printed) :
                   Len(run.printed[n]) = 2 => run.printed[n][1] = Len(run.tweets)
            /\ (session.method = "get_tweets" /\ run.args.verbose)
                   => run.printed[Len(run.printed)] = <<Len(run.tweets), "tweets returned">>

\* get_tweets met the end of the sample after one accepted and one rejected
\* tweet, the limit being two, and printed its count.
C13_Witness ==
    /\ session.method = "get_tweets"
    /\ session.run.exhausted
    /\ session.run.args.verbose
    /\ session.run.args.limit = 2
    /\ Len(session.run.tweets) = 1
    /\ session.run.pulled = 2

Filtered == pure.function = "parse_tweet" /\ pure.returned

\* C14: parse_tweet returns a ParsedTweet if and only if the raw tweet has a
\* non-empty text, has a language exactly when lang_none is false, has the
\* requested language when it has one, and, under hash_only, has a non-empty
\* list of hashtags (read for raw tweets with a user, their metadata kept).
C14_AcceptIff ==
    (Filtered /\ pure.meta /\ "user" \in DOMAIN pure.raw_tweet) =>
        LET tweet == pure.raw_tweet
        IN  (pure.result.exc = "none" /\ pure.result.value # None)
            <=> /\ "text" \in DOMAIN tweet /\ truthy(tweet["text"])
                /\ pure.lang_none <=> "lang" \notin DOMAIN tweet
                /\ "lang" \in DOMAIN tweet => tweet["lang"] = pure.lang
                /\ pure.hash_only => /\ "entities" \in DOMAIN tweet
                                     /\ truthy(tweet["entities"][2]["hashtags"])

\* C15: under lang_none = False a raw tweet with a text and no language is
\* rejected (parse_tweet returns None) and nothing is raised, whatever lang
\* and hash_only are.
C15_NoLanguageRejected ==
    (Filtered /\ ~pure.lang_none
        /\ "text" \in DOMAIN pure.raw_tweet /\ "lang" \notin DOMAIN pure.raw_tweet)
        => pure.result = [exc |-> "none", value |-> None]

\* Such a tweet, without entities either, went through parse_tweet under
\* hash_only.
C15_Witness ==
    /\ Filtered /\ ~pure.lang_none /\ pure.hash_only
    /\ DOMAIN pure.raw_tweet = {"text", "user"}
    /\ truthy(pure.raw_tweet["text"])

\* C16: with meta = False an accepted raw tweet with a non-empty text becomes
\* a ParsedTweet and nothing is raised: the object has no flattened metadata
\* and its hashtags are those found in its text.
C16_NoMetadata ==
    (Filtered /\ ~pure.meta
        /\ accept(pure.raw_tweet, pure.hash_only, pure.lang, pure.lang_none) = "accept"
        /\ truthy(pure.raw_tweet["text"]))
        => /\ pure.result.exc = "none"
           /\ pure.result.value # None
           /\ ~pure.result.value[2].has_meta_key
           /\ pure.result.value[2].hashtags = findall("#", pure.raw_tweet["text"][2])

\* C17: for a raw tweet with a text, with or without a language and
\* entities, the conditions of parse_tweet raise nothing under any lang_none
\* and hash_only (KeyError is what a missing key raises).
C17_FilterNeverRaises ==
    (Filtered /\ "text" \in DOMAIN pure.raw_tweet) => pure.result.exc # "KeyError"

\* The lines json_to_parsed and tweet_generator are to read: all of them, or
\* the first `maximum` of them.
LinesToRead ==
    IF truthy(pure.maximum) THEN SubSeq(pure.lines, 1, Min(pure.maximum[2], Len(pure.lines)))
    ELSE pure.lines

\* C18: when json_to_parsed or tweet_generator is through with a file, it
\* has produced one ParsedTweet for every line that is JSON (of the lines up
\* to the maximum), in the order of the file, and nothing was raised: a line
\* that is not JSON is passed over.
C18_OnePerWellFormedLine ==
    (pure.function \in {"json_to_parsed", "tweet_generator"} /\ pure.status # "suspended") =>
        LET well_formed == SelectSeq(LinesToRead, LAMBDA x : x.json)
        IN  /\ pure.exc = "none"
            /\ Len(pure.tweets) = Len(well_formed)
            /\ \A n \in 1..Len(well_formed) :
                   pure.tweets[n] = <<"ParsedTweet", ParsedTweet_of_line(well_formed[n]).self>>

\* C19: while the generator of tweet_iterator is suspended at the yield of
\* its k-th ParsedTweet, the items taken from the sample are those up to the
\* k-th acceptable raw tweet and no more, and the k tweets handed out are
\* the first k acceptable ones.
C19_Lazy ==
    (session.method = "tweet_iterator" /\ session.run.status = "suspended") =>
        LET run == session.run
            k == Len(run.tweets)
        IN  /\ k >= 1
            /\ k <= Len(AcceptablePositions(run.args))
            /\ run.pulled = AcceptablePositions(run.args)[k]
            /\ run.tweets = FirstAcceptable(run.args, k)

\* The consumer holds its first tweet, which came after a rejected one, and
\* an item of the sample is still unread.
C19_Witness ==
    /\ session.method = "tweet_iterator"
    /\ session.run.status = "suspended"
    /\ Len(session.run.tweets) = 1
    /\ session.run.args.limit >= 1
    /\ session.run.pulled = 2
    /\ Len(session.sample) = 3

\* C20: the dictionary __get_meta_key__ returns has exactly the keys that
\* occur at any depth of its argument: every leaf key and every key of a
\* nested dictionary is there, and no other key is.
C20_FlattenedKeys ==
    (pure.function = "__get_meta_key__" /\ pure.returned)
        => DOMAIN pure.result = KeysAtAnyDepth(pure.metadata)

\* A mapping of three levels whose inner levels repeat a key of the outer
\* one has been flattened.
C20_Witness ==
    /\ pure.function = "__get_meta_key__" /\ pure.returned
    /\ \E k1 \in DOMAIN pure.metadata :
           /\ isinstance_dict(pure.metadata[k1])
           /\ \E k2 \in DOMAIN pure.metadata[k1][2] :
                  /\ isinstance_dict(pure.metadata[k1][2][k2])
                  /\ k1 \in DOMAIN pure.metadata[k1][2][k2][2]
    /\ Cardinality(DOMAIN pure.metadata) > 1

\* C21: get_coordinates returns the pair [longitude, latitude] when the
\* coordinates field is such a pair inside any number of single-element
\* lists, and returns None, raising nothing, when the field is missing,
\* empty or anything else.
C21_Coordinates ==
    (pure.function = "get_coordinates" /\ pure.returned) =>
        /\ pure.result.exc = "none"
        /\ IF pure.field # <<>> /\ pure.field[1] \in WrappedPairs
           THEN /\ pure.result.value \in Pairs2
                /\ \E n \in 0..MaxWrap : pure.field[1] = wrapped(pure.result.value, n)
           ELSE pure.result.value = None

\* C22: replacing the user names in a text that has already gone through
\* the replacement gives the same text.
C22_MungeIdempotent ==
    (pure.function = "re.sub" /\ pure.times = 2) => pure.munged_text = pure.before

\* A text with a user name followed by more text went through twice, and
\* the first pass changed it.
C22_Witness ==
    /\ pure.function = "re.sub" /\ pure.times = 2
    /\ pure.munged_text # pure.text
    /\ Len(pure.text) = MaxText
    /\ pure.text[1] = "@" /\ pure.text[2] \in Word /\ pure.text[3] = " "

\* The hashtags of the posts with the given texts, one post after the other.
RECURSIVE HashtagsOf(_)
HashtagsOf(texts) ==
    IF texts = <<>> THEN <<>>
    ELSE get_hashes(CHOOSE post \in Posts : post.munged_text = Head(texts))
         \o HashtagsOf(Tail(texts))

\* Every call so far was a parse_tweet (each emits one tweet record).
OnlyIngested == ncalls = Len(Emitted("tweet_fixture"))

\* C23: after any number of parse_tweet calls and no serialize_competitors,
\* self.competitors is the hashtag lists of the parsed tweets one after the
\* other, in the order of the calls, a text as often as it occurred; it
\* has as many entries as hashtag records were emitted.
C23_OccurrenceList ==
    OnlyIngested =>
        /\ self.competitors = HashtagsOf(Texts(Emitted("tweet_fixture")))
        /\ Len(self.competitors) = Len(Emitted("hash_fixture"))

\* A and B were parsed: y is on the list twice.
C23_Witness ==
    /\ OnlyIngested
    /\ Texts(Emitted("tweet_fixture")) = <<"A", "B">>
    /\ self.competitors = <<"x", "y", "y", "z">>

\* The pairs due for the occurrence list occ when its entries leave it last
\* one first, each paired with the entries before it that differ from it,
\* taken in list order.
RECURSIVE PairsLastFirst(_)
PairsLastFirst(occ) ==
    IF occ = <<>> THEN <<>>
    ELSE LET last == occ[Len(occ)]
             rest == SubSeq(occ, 1, Len(occ) - 1)
             others == SelectSeq(rest, LAMBDA t : t # last)
         IN  [n \in 1..Len(others) |-> <<last, others[n]>>] \o PairsLastFirst(rest)

\* C24: serialize_competitors comes to an end on every occurrence list and
\* raises nothing; it takes the entries off the list last one first, leaves
\* the list empty, advances competitors_i by the number of competitors
\* records it emitted and leaves tweet_i and hash_i as they were.
C24_SerializeEnds ==
    lastCall.op = "serialize_competitors" =>
        /\ lastCall.exc = "none"
        /\ self.competitors = <<>>
        /\ Pairs(EmittedInCall("competitor_fixture")) = PairsLastFirst(lastCall.occ)
        /\ self.competitors_i
             = lastCall.competitors_i + Len(EmittedInCall("competitor_fixture"))
        /\ self.tweet_i = lastCall.tweet_i
        /\ self.hash_i = lastCall.hash_i

\* The list x, y, z was serialized: z left first, then y.
C24_Witness ==
    /\ lastCall.op = "serialize_competitors"
    /\ lastCall.occ = <<"x", "y", "z">>
    /\ Pairs(EmittedInCall("competitor_fixture")) = <<<<"z", "x">>, <<"z", "y">>, <<"y", "x">>>>
    /\ self.competitors_i = lastCall.competitors_i + 3

\* C25: when add_new_competitor has saved its tweet under the id p, the
\* hashtags it looks up are those of tweet p, and the hashtags it pairs with
\* the existing ones are exactly the hashtags that belong to tweet p.
C25_PairsTagsOfCommittedPost ==
    (lastCall.op = "add_new_competitor" /\ lastCall.exc = "none") =>
        LET saved   == SelectSeq(RequestsInCall("Tweet"), LAMBDA e : e.ok)
            lookups == RequestsInCall("Hashtag.objects.filter")
            paired  == {RequestsInCall("Competitors")[n].row.tag1 :
                            n \in 1..Len(RequestsInCall("Competitors"))}
        IN  /\ Len(saved) = 1
            /\ Len(lookups) = 1
            /\ lookups[1].id = saved[1].id
            /\ paired = {h.id : h \in {r \in db.Hashtag : saved[1].id \in r.tweet}}

====
